---------------------------- MODULE Spec2Model ----------------------------
(***************************************************************************)
(* A model of the PDF-to-LaTeX converter: process start-up (run.py,        *)
(* app/main.py, app/rate_limiter.py), the three rate-limited endpoints,    *)
(* the validation path of POST /convert and the page-count validators.     *)
(*                                                                         *)
(* Messages are sequences of words, so that "the message contains ..." is  *)
(* a statement about the text the code builds.                             *)
(***************************************************************************)
EXTENDS Integers, Sequences, FiniteSets, Bags, TLC

VARIABLES
    pc,            \* start-up position of the process
    entry,         \* how the process was started: "run.py" or "app.main"
    api_key,       \* environment: is OPENAI_API_KEY set
    apps,          \* number of create_app() calls made so far
    storage_uri,   \* storage_uri of the Limiter of the app being served
    log,           \* app.logger records written by create_limiter, in order
    count,         \* rate-limit storage: count[user][tier][i], rule i of the tier
    last,          \* the last request handled and the response it got
    tier,          \* tier under observation (quota specification only)
    procs,         \* bag of the concurrent requests in flight (concurrency specification)
    admitted,      \* requests admitted per rule in the current window (same)
    page,          \* the last page-count validation performed (validator specification)
    latex          \* the last text cleaned and the result (normalization specification)

vars == <<pc, entry, api_key, apps, storage_uri, log, count, last, tier, procs, admitted, page,
          latex>>

----------------------------------------------------------------------------
\* Bounds of the model

\* how far past a rule's amount a counter is followed (denied retries keep counting)
MaxOver == 2

\* bytes of multipart framing around the uploaded file in the request body
MultipartOverhead == 200

\* largest page count handed to the page-count validators
MaxPageCount == 60

\* longest text, in tokens, handed to the clean-up of the generated markup
MaxText == 4

\* concurrent requests of one user in flight at once
MaxProcs == 2

\* requests admitted in one window because the storage did not answer
MaxOpen == 1

\* health probes followed after start-up
MaxServed == 4

----------------------------------------------------------------------------
\* Configuration

\* os.getenv('MAX_FILE_SIZE', 10485760)
MAX_FILE_SIZE == 10485760

\* app.config['MAX_CONTENT_LENGTH']: the same environment variable
MAX_CONTENT_LENGTH == MAX_FILE_SIZE

MAX_PAGES_PER_CONVERSION == 20

CONVERT_LIMITS == << [amount |-> 2, per |-> "minute"], [amount |-> 5, per |-> "day"] >>

HEALTH_LIMITS == << [amount |-> 60, per |-> "minute"], [amount |-> 1000, per |-> "day"] >>

GENERAL_LIMITS == << [amount |-> 30, per |-> "minute"], [amount |-> 500, per |-> "day"] >>

Tiers == {"convert", "health", "general"}

\* the limits each route is decorated with (@limiter.limit(...))
RouteLimits(t) ==
    CASE t = "convert" -> CONVERT_LIMITS
      [] t = "health"  -> HEALTH_LIMITS
      [] OTHER         -> GENERAL_LIMITS

\* request.endpoint of the route of each tier
Endpoint(t) ==
    CASE t = "convert" -> "convert_pdf"
      [] t = "health"  -> "health_check"
      [] OTHER         -> "index"

Rules == 1..2

\* value of the key function get_user_id for the requests of the model, which all
\* come from one address and user agent: "user:<address>:<hash prefix>"
Users == {"user:203.0.113.7:5f4dcc3b"}

None == "None"

----------------------------------------------------------------------------
\* Text helpers

\* sub occurs in msg as a run of consecutive words
Contains(msg, sub) ==
    \E i \in 0..(Len(msg) - Len(sub)) :
        \A j \in 1..Len(sub) : msg[i + j] = sub[j]

\* RateLimitConfig.get_error_message
get_error_message(endpoint_type) ==
    CASE endpoint_type = "convert" ->
           << "You've", "reached", "your", "daily", "limit", "of", "5", "PDF",
              "conversions.", "Please", "try", "again", "tomorrow." >>
      [] endpoint_type = "upload" ->
           << "Too", "many", "upload", "attempts." >>
      [] OTHER ->
           << "You're", "making", "too", "many", "requests." >>

----------------------------------------------------------------------------
\* Page-count validation.  A page count of -1 stands for a file fitz cannot open.

Unreadable == -1

PageLimitMessage(page_count) ==
    << "PDF", "has", ToString(page_count), "pages,", "but", "maximum", "allowed", "is",
       ToString(MAX_PAGES_PER_CONVERSION), "pages", "per", "conversion.",
       "Please", "split", "your", "document", "into", "smaller", "files." >>

\* mutant: the empty document is not rejected
validate_page_count_nozero(n) ==
    IF n > MAX_PAGES_PER_CONVERSION
    THEN [is_valid |-> FALSE, page_count |-> n, error_msg |-> PageLimitMessage(n)]
    ELSE [is_valid |-> n # Unreadable, page_count |-> n, error_msg |-> << >>]

\* PDFProcessor._validate_page_count: (is_valid, page_count, error_message)
validate_page_count(n) ==
    IF n = Unreadable
    THEN [is_valid |-> FALSE, page_count |-> 0,
          error_msg |-> << "Could", "not", "validate", "PDF:" >>]
    ELSE IF n > MAX_PAGES_PER_CONVERSION
    THEN [is_valid |-> FALSE, page_count |-> n, error_msg |-> PageLimitMessage(n)]
    ELSE IF n = 0
    THEN [is_valid |-> FALSE, page_count |-> 0,
          error_msg |-> << "PDF", "appears", "to", "be", "empty", "or", "corrupted." >>]
    ELSE [is_valid |-> TRUE, page_count |-> n, error_msg |-> << >>]

\* rate_limiter.validate_pdf_page_count: (is_valid, page_count, error_message)
validate_pdf_page_count(n) ==
    IF n = Unreadable
    THEN [is_valid |-> FALSE, page_count |-> 0,
          error_msg |-> << "Could", "not", "validate", "PDF:" >>]
    ELSE IF n > MAX_PAGES_PER_CONVERSION
    THEN [is_valid |-> FALSE, page_count |-> n, error_msg |-> PageLimitMessage(n)]
    ELSE [is_valid |-> TRUE, page_count |-> n, error_msg |-> << >>]

\* outcomes of the work behind validation: rasterization and the remote call
Downstream == {"ok", "raster_fail", "api_fail", "api_empty"}

\* PDFProcessor.convert_to_latex: the steps it runs, in order, and its result
convert_to_latex(n, downstream) ==
    LET v == validate_page_count(n) IN
    IF ~v.is_valid
    THEN [ok |-> FALSE, steps |-> << "validate_page_count" >>,
          text |-> << "PDF", "processing", "failed:" >> \o v.error_msg]
    ELSE IF downstream = "raster_fail"
    THEN [ok |-> FALSE, steps |-> << "validate_page_count", "pdf_to_images" >>,
          text |-> << "PDF", "processing", "failed:", "Failed", "to", "convert",
                      "PDF", "to", "images:" >>]
    ELSE IF downstream = "api_fail"
    THEN [ok |-> FALSE,
          steps |-> << "validate_page_count", "pdf_to_images", "generate_latex" >>,
          text |-> << "PDF", "processing", "failed:", "LaTeX", "generation", "failed:" >>]
    ELSE IF downstream = "api_empty"
    THEN [ok |-> FALSE,
          steps |-> << "validate_page_count", "pdf_to_images", "generate_latex" >>,
          text |-> << "PDF", "processing", "failed:", "LaTeX", "generation", "failed:",
                      "No", "response", "received", "from", "OpenAI", "API" >>]
    ELSE [ok |-> TRUE,
          steps |-> << "validate_page_count", "pdf_to_images", "generate_latex" >>,
          text |-> << "\\documentclass" >>]

----------------------------------------------------------------------------
\* The rate limiter: Limiter(key_func=get_user_id, storage_uri=..., swallow_errors=True)
\* with the library's default fixed-window strategy.  A check of one rule is a hit:
\* the storage increments the rule's counter (creating it with the window as its
\* time to live) and the hit is within the limit when the new count does not exceed
\* the amount.  The rules of a route are hit in order of their window and the first
\* breach ends the check.

\* mutant: read, add and write back in separate steps (an update made in between is lost)
storage_incr_stale(seen, cur) == seen + 1

\* storage.incr: the value stored for a counter whose value was `seen` when the call
\* was issued and is `cur` when the storage executes it (one atomic operation)
storage_incr(seen, cur) == cur + 1

\* mutant: the count before the increment is compared with the amount
hit_within_before(n, amount) == n - 1 <= amount

hit_within(n, amount) == n <= amount

RECURSIVE evaluate_limits(_, _, _)
evaluate_limits(c, limits, i) ==
    IF i > Len(limits)
    THEN [count |-> c, breached |-> 0]
    ELSE LET n == storage_incr(c[i], c[i]) IN
         IF hit_within(n, limits[i].amount)
         THEN evaluate_limits([c EXCEPT ![i] = n], limits, i + 1)
         ELSE [count |-> [c EXCEPT ![i] = n], breached |-> i]

\* the limiter's check of one request; when the storage does not answer, the error
\* is swallowed and the request goes on to the view (swallow_errors=True)
check_request_limit(c, limits, answers) ==
    IF answers
    THEN evaluate_limits(c, limits, 1) @@ [checked |-> TRUE]
    ELSE [count |-> c, breached |-> 0, checked |-> FALSE]

\* the exception the limiter raises for a breached limit: it names the limit and
\* carries no retry_after
RateLimitExceeded(limit) == [limit |-> limit, retry_after |-> None]

\* the 429 error handler
ratelimit_handler(endpoint, e) ==
    LET limit_type == IF endpoint = "convert_pdf" THEN "convert" ELSE "general" IN
    [status |-> 429,
     error |-> << "Rate", "limit", "exceeded" >>,
     message |-> get_error_message(limit_type),
     limit_type |-> limit_type,
     retry_after |-> e.retry_after]

\* a response that is not a rate-limit denial
Reply(status, error) ==
    [status |-> status, error |-> error, message |-> << >>,
     limit_type |-> None, retry_after |-> None]

----------------------------------------------------------------------------
\* POST /convert

Lower(ch) ==
    CASE ch = "A" -> "a" [] ch = "P" -> "p" [] ch = "D" -> "d" [] ch = "F" -> "f"
      [] OTHER -> ch

lower(name) == [i \in 1..Len(name) |-> Lower(name[i])]

\* mutant: every filename is taken for a PDF
endswith_any(name, suffix) == TRUE

endswith(name, suffix) ==
    /\ Len(name) >= Len(suffix)
    /\ \A j \in 1..Len(suffix) : name[Len(name) - Len(suffix) + j] = suffix[j]

\* f'{max_size/1024/1024:.1f}MB': the quotient rounded to one decimal place
\* (division by a power of two is exact, ties go to the even digit)
FormatMB(max_size) ==
    LET q == (max_size * 10) \div 1048576
        r == (max_size * 10) % 1048576
        t == IF 2 * r > 1048576 \/ (2 * r = 1048576 /\ q % 2 = 1) THEN q + 1 ELSE q
    IN  ToString(t \div 10) \o "." \o ToString(t % 10) \o "MB"

\* bytes of the request body: the file inside its multipart framing
content_length(req) ==
    IF req.has_part THEN req.file_size + MultipartOverhead ELSE 0

\* the body of the view convert_pdf: the checks it evaluates, in order, and its reply
convert_pdf(req) ==
    IF content_length(req) > MAX_CONTENT_LENGTH
    THEN [steps |-> << "content_length" >>,
          reply |-> Reply(413, << "Request", "Entity", "Too", "Large" >>)]
    ELSE IF ~req.has_part
    THEN [steps |-> << "content_length", "file_part" >>,
          reply |-> Reply(400, << "No", "file", "uploaded" >>)]
    ELSE IF req.filename = << >>
    THEN [steps |-> << "content_length", "file_part", "filename" >>,
          reply |-> Reply(400, << "No", "file", "selected" >>)]
    ELSE IF ~endswith(lower(req.filename), << ".", "p", "d", "f" >>)
    THEN [steps |-> << "content_length", "file_part", "filename", "extension" >>,
          reply |-> Reply(400, << "Please", "upload", "a", "PDF", "file" >>)]
    ELSE IF req.file_size > MAX_FILE_SIZE
    THEN [steps |-> << "content_length", "file_part", "filename", "extension", "size" >>,
          reply |-> Reply(400, << "File", "too", "large.", "Maximum", "size", "is",
                                  FormatMB(MAX_FILE_SIZE) >>)]
    ELSE LET r == convert_to_latex(req.pages, req.downstream) IN
         [steps |-> << "content_length", "file_part", "filename", "extension", "size" >>
                    \o r.steps,
          reply |-> IF r.ok
                    THEN Reply(200, << >>)
                    ELSE Reply(500, << "Conversion", "failed:" >> \o r.text)]

----------------------------------------------------------------------------
\* State

NoReq == [has_part |-> FALSE, filename |-> << >>, file_size |-> 0,
          pages |-> 3, downstream |-> "ok"]

NoRequest ==
    [user |-> None, endpoint |-> None, req |-> NoReq, steps |-> << >>,
     checked |-> FALSE, breached |-> 0, resp |-> Reply(0, << >>)]

Zero == [u \in Users |-> [t \in Tiers |-> [i \in Rules |-> 0]]]

NoProcs == EmptyBag

NoAdmitted == [i \in Rules |-> [checked |-> 0, open |-> 0]]

NoPage == [fn |-> None, n |-> 0, valid |-> FALSE, msg |-> << >>]

NoLatex == [called |-> FALSE, text |-> << >>, out |-> << >>]

\* uploads the conversion endpoint is exercised with
PdfName == << "A", ".", "P", "D", "F" >>

Upload == [NoReq EXCEPT !.has_part = TRUE, !.file_size = 1000]

Requests ==
    { NoReq, Upload,
      [Upload EXCEPT !.filename = << "a", ".", "t", "x", "t" >>],
      [Upload EXCEPT !.filename = << "p", "d", "f" >>] }
    \cup { [Upload EXCEPT !.filename = PdfName, !.file_size = z] :
             z \in { MAX_FILE_SIZE - MultipartOverhead + 1, MAX_FILE_SIZE,
                     MAX_FILE_SIZE + 1 } }
    \cup { [Upload EXCEPT !.filename = PdfName, !.pages = n,
                          !.file_size = MAX_FILE_SIZE - MultipartOverhead] :
             n \in { Unreadable, 0, 3, MAX_PAGES_PER_CONVERSION,
                     MAX_PAGES_PER_CONVERSION + 1 } }
    \cup { [Upload EXCEPT !.filename = PdfName, !.downstream = d] : d \in Downstream }

----------------------------------------------------------------------------
\* Start-up

\* create_limiter: ping Redis (`up`: it answers), fall back to in-memory storage
\* when it does not
create_limiter(up) ==
    IF up
    THEN [storage_uri |-> "redis",
          log |-> << [level |-> "info", text |-> "Connected to Redis for rate limiting"] >>]
    ELSE [storage_uri |-> "memory",
          log |-> << [level |-> "warning",
                      text |-> "Redis connection failed, using in-memory rate limiting"],
                     [level |-> "warning",
                      text |-> "For production, please configure Redis properly"] >>]

\* create_app: configure, create the limiter, then the processors; LaTeXGenerator()
\* raises without OPENAI_API_KEY.  `next` is where a successful call leaves the process.
create_app(up, next) ==
    LET l == create_limiter(up) IN
    /\ apps' = apps + 1
    /\ storage_uri' = l.storage_uri
    /\ log' = log \o l.log
    /\ pc' = IF api_key THEN next ELSE "crashed"

\* importing app.main runs its module-level `app = create_app()`
ImportMain(up) ==
    /\ pc = "start"
    /\ create_app(up, IF entry = "run.py" THEN "imported" ELSE "serving")
    /\ UNCHANGED <<entry, api_key, count, last, tier, procs, admitted, page, latex>>

\* run.py: `app = create_app()` after the import
RunCreateApp(up) ==
    /\ pc = "imported"
    /\ create_app(up, "serving")
    /\ UNCHANGED <<entry, api_key, count, last, tier, procs, admitted, page, latex>>

----------------------------------------------------------------------------
\* Requests

\* counters are followed up to MaxOver past their rule's amount
Followed(u, t) ==
    \A i \in Rules : count[u][t][i] < RouteLimits(t)[i].amount + MaxOver

\* a request of user u to the route of tier t whose view would answer `view`;
\* `answers`: the storage answers this request's check
Handle(u, t, req, view, answers) ==
    LET q == check_request_limit(count[u][t], RouteLimits(t), answers) IN
    /\ count' = [count EXCEPT ![u][t] = q.count]
    /\ last' = [user |-> u, endpoint |-> Endpoint(t), req |-> req,
                steps |-> IF q.breached # 0 THEN << "quota" >>
                          ELSE << "quota" >> \o view.steps,
                checked |-> q.checked, breached |-> q.breached,
                resp |-> IF q.breached # 0
                         THEN ratelimit_handler(Endpoint(t),
                                                RateLimitExceeded(RouteLimits(t)[q.breached]))
                         ELSE view.reply]

\* the in-memory storage always answers; Redis may fail at any request
Answers == IF storage_uri = "memory" THEN {TRUE} ELSE BOOLEAN

Convert(u, req, answers) ==
    /\ pc = "serving"
    /\ tier = "convert"
    /\ Followed(u, "convert")
    /\ Handle(u, "convert", req, convert_pdf(req), answers)
    /\ UNCHANGED <<pc, entry, api_key, apps, storage_uri, log, tier, procs, admitted, page, latex>>

\* the counter of a rule reaches the end of its window and is dropped
Expire(u, t, i) ==
    /\ pc = "serving"
    /\ count[u][t][i] > 0
    /\ count' = [count EXCEPT ![u][t][i] = 0]
    /\ UNCHANGED <<pc, entry, api_key, apps, storage_uri, log, last, tier, procs,
                   admitted, page, latex>>

\* a process that has completed start-up from app.main with the given storage
Serving(up) ==
    /\ pc = "serving"
    /\ entry = "app.main"
    /\ api_key = TRUE
    /\ apps = 1
    /\ storage_uri = create_limiter(up).storage_uri
    /\ log = create_limiter(up).log
    /\ count = Zero
    /\ last = NoRequest
    /\ procs = NoProcs
    /\ admitted = NoAdmitted
    /\ page = NoPage
    /\ latex = NoLatex

Init ==
    /\ \E up \in BOOLEAN : Serving(up)
    /\ tier = "convert"

Next ==
    \/ \E u \in Users, req \in Requests, answers \in Answers : Convert(u, req, answers)
    \/ \E u \in Users, i \in Rules : Expire(u, tier, i)

Spec == Init /\ [][Next]_vars

----------------------------------------------------------------------------
\* The three rate-limited routes, one tier observed per behaviour

\* GET /: renders the upload form
index == [steps |-> << "render_template" >>, reply |-> Reply(200, << >>)]

\* GET /health
health_check == [steps |-> << "jsonify" >>, reply |-> Reply(200, << >>)]

Index(u, answers) ==
    /\ pc = "serving"
    /\ tier = "general"
    /\ Followed(u, "general")
    /\ Handle(u, "general", NoReq, index, answers)
    /\ UNCHANGED <<pc, entry, api_key, apps, storage_uri, log, tier, procs, admitted, page, latex>>

Health(u, answers) ==
    /\ pc = "serving"
    /\ tier = "health"
    /\ Followed(u, "health")
    /\ Handle(u, "health", NoReq, health_check, answers)
    /\ UNCHANGED <<pc, entry, api_key, apps, storage_uri, log, tier, procs, admitted, page, latex>>

InitTiers ==
    /\ \E up \in BOOLEAN : Serving(up)
    /\ tier \in Tiers

NextTiers ==
    \/ \E u \in Users, req \in Requests, answers \in Answers : Convert(u, req, answers)
    \/ \E u \in Users, answers \in Answers : Index(u, answers)
    \/ \E u \in Users, answers \in Answers : Health(u, answers)
    \/ \E u \in Users, i \in Rules : Expire(u, tier, i)

SpecTiers == InitTiers /\ [][NextTiers]_vars

----------------------------------------------------------------------------
\* Start-up of one process, followed by a few health probes

StartProbe(u, answers) ==
    /\ \A i \in Rules : count[u]["health"][i] < MaxServed
    /\ Health(u, answers)

InitStart ==
    /\ pc = "start"
    /\ entry \in {"run.py", "app.main"}
    /\ api_key \in BOOLEAN
    /\ apps = 0
    /\ storage_uri = None
    /\ log = << >>
    /\ count = Zero
    /\ last = NoRequest
    /\ tier = "health"
    /\ procs = NoProcs
    /\ admitted = NoAdmitted
    /\ page = NoPage
    /\ latex = NoLatex

NextStart ==
    \/ \E up \in BOOLEAN : ImportMain(up)
    \/ \E up \in BOOLEAN : RunCreateApp(up)
    \/ \E u \in Users, answers \in Answers : StartProbe(u, answers)
    \/ \E u \in Users, i \in Rules : Expire(u, tier, i)

SpecStart == InitStart /\ [][NextStart]_vars

----------------------------------------------------------------------------
\* Concurrent requests of one user to POST /convert.  A request enters the limiter,
\* hits the rules one storage call at a time, and is then answered by the view or
\* denied; calls of different requests interleave.  admitted[i] counts the requests
\* admitted within the current window of rule i: `checked` those whose hit of rule i
\* was counted in that window, `open` those the limiter let through on a storage error.

ConcUser == CHOOSE u \in Users : TRUE

ConcLimits == RouteLimits("convert")

\* a request in flight: where it is, the rule it is about to hit, the value the
\* counter of that rule had when the storage call was issued, and the rules it has
\* passed in their current window
InFlight(at, rule, seen, passed) ==
    [at |-> at, rule |-> rule, seen |-> seen, passed |-> passed]

Answered(at) == InFlight(at, 0, 0, {})

\* r becomes s
Becomes(r, s) == (procs (-) SetToBag({r})) (+) SetToBag({s})

\* a request enters the limiter
Arrive ==
    /\ pc = "serving"
    /\ BagCardinality(procs) < MaxProcs
    /\ procs' = procs (+) SetToBag({InFlight("limiter", 1, count[ConcUser]["convert"][1], {})})
    /\ UNCHANGED <<pc, entry, api_key, apps, storage_uri, log, count, last, tier,
                   admitted, page, latex>>

\* the request is admitted after every rule counted it: it is one more request of the
\* current window of every rule in `counted`, the rules it hit within that window
Admit(counted) ==
    [j \in Rules |-> IF j \in counted
                     THEN [admitted[j] EXCEPT !.checked = @ + 1]
                     ELSE admitted[j]]

\* the request is admitted because the storage did not answer: the rules in `counted`
\* counted it, the others did not
AdmitOpen(counted) ==
    [j \in Rules |-> IF j \in counted
                     THEN [admitted[j] EXCEPT !.checked = @ + 1]
                     ELSE [admitted[j] EXCEPT !.open = @ + 1]]

\* one storage call of request r: the hit of its current rule
HitRule(r, answers) ==
    LET i == r.rule
        n == storage_incr(r.seen, count[ConcUser]["convert"][i])
    IN
    /\ pc = "serving"
    /\ r.at = "limiter"
    /\ IF ~answers
       THEN \* the error is swallowed: the request goes on to the view
            /\ \A j \in Rules : admitted[j].open < MaxOpen
            /\ procs' = Becomes(r, Answered("view"))
            /\ admitted' = AdmitOpen(r.passed)
            /\ count' = count
       ELSE /\ count[ConcUser]["convert"][i] < ConcLimits[i].amount + MaxOver
            /\ count' = [count EXCEPT ![ConcUser]["convert"][i] = n]
            /\ IF ~hit_within(n, ConcLimits[i].amount)
               THEN /\ admitted' = admitted
                    /\ procs' = Becomes(r, Answered("denied"))
               ELSE IF i < Len(ConcLimits)
               THEN /\ admitted' = admitted
                    /\ procs' = Becomes(r, InFlight("limiter", i + 1,
                                                    count[ConcUser]["convert"][i + 1],
                                                    r.passed \cup {i}))
               ELSE /\ admitted' = Admit(r.passed \cup {i})
                    /\ procs' = Becomes(r, Answered("view"))
    /\ UNCHANGED <<pc, entry, api_key, apps, storage_uri, log, last, tier, page, latex>>

\* the response is sent
Return(r) ==
    /\ r.at \in {"view", "denied"}
    /\ procs' = procs (-) SetToBag({r})
    /\ UNCHANGED <<pc, entry, api_key, apps, storage_uri, log, count, last, tier,
                   admitted, page, latex>>

\* request r after the window of rule i has ended
Outlives(r, i) == [r EXCEPT !.passed = @ \ {i}]

\* the window of rule i ends: its counter is dropped
ExpireWindow(i) ==
    /\ count[ConcUser]["convert"][i] > 0 \/ admitted[i] # NoAdmitted[i]
    /\ count' = [count EXCEPT ![ConcUser]["convert"][i] = 0]
    /\ admitted' = [admitted EXCEPT ![i] = NoAdmitted[i]]
    /\ procs' = [s \in { Outlives(r, i) : r \in BagToSet(procs) } |->
                   LET from == { r \in BagToSet(procs) : Outlives(r, i) = s }
                       RECURSIVE Sum(_)
                       Sum(S) == IF S = {} THEN 0
                                 ELSE LET x == CHOOSE x \in S : TRUE
                                      IN  procs[x] + Sum(S \ {x})
                   IN  Sum(from)]
    /\ UNCHANGED <<pc, entry, api_key, apps, storage_uri, log, last, tier, page, latex>>

NextConc ==
    \/ Arrive
    \/ \E r \in BagToSet(procs), answers \in Answers : HitRule(r, answers)
    \/ \E r \in BagToSet(procs) : Return(r)
    \/ \E i \in Rules : ExpireWindow(i)

SpecConc == Init /\ [][NextConc]_vars

----------------------------------------------------------------------------
\* The two page-count validators applied to documents of every length

ValidateInProcessor(n) ==
    LET v == validate_page_count(n) IN
    /\ page' = [fn |-> "PDFProcessor._validate_page_count", n |-> n,
                valid |-> v.is_valid, msg |-> v.error_msg]
    /\ UNCHANGED <<pc, entry, api_key, apps, storage_uri, log, count, last, tier, procs,
                   admitted, latex>>

ValidateStandalone(n) ==
    LET v == validate_pdf_page_count(n) IN
    /\ page' = [fn |-> "validate_pdf_page_count", n |-> n,
                valid |-> v.is_valid, msg |-> v.error_msg]
    /\ UNCHANGED <<pc, entry, api_key, apps, storage_uri, log, count, last, tier, procs,
                   admitted, latex>>

PageCounts == {Unreadable} \cup 0..MaxPageCount

NextPages ==
    \/ \E n \in PageCounts : ValidateInProcessor(n)
    \/ \E n \in PageCounts : ValidateStandalone(n)

SpecPages == Init /\ [][NextPages]_vars

----------------------------------------------------------------------------
\* Clean-up of the generated markup (LaTeXGenerator._clean_latex_output).  A text is
\* a sequence of tokens: the code fence (three backquotes), the word "latex", a
\* blank, the command \documentclass and other markup "x".

FenceMark == "<fence>"

Fence == << FenceMark >>

Documentclass == "\\documentclass"

Tokens == { FenceMark, "latex", " ", Documentclass, "x" }

startswith(s, prefix) ==
    /\ Len(s) >= Len(prefix)
    /\ \A j \in 1..Len(prefix) : s[j] = prefix[j]

\* s[k:] with k counted in tokens
DropFirst(s, k) == SubSeq(s, k + 1, Len(s))

\* s[:-k]
DropLast(s, k) == SubSeq(s, 1, Len(s) - k)

isspace(c) == c \in {" ", "\n"}

RECURSIVE lstrip(_)
lstrip(s) == IF s # << >> /\ isspace(Head(s)) THEN lstrip(Tail(s)) ELSE s

RECURSIVE rstrip(_)
rstrip(s) == IF s # << >> /\ isspace(s[Len(s)]) THEN rstrip(DropLast(s, 1)) ELSE s

strip(s) == rstrip(lstrip(s))

\* the document shell of the f-string, before and after {latex_code}
ShellHead ==
    << Documentclass, "{article}", "\n",
       "\\usepackage[utf8]{inputenc}", "\n",
       "\\usepackage{amsmath}", "\n",
       "\\usepackage{amsfonts}", "\n",
       "\\usepackage{amssymb}", "\n",
       "\\usepackage{graphicx}", "\n", "\n",
       "\\begin{document}", "\n", "\n" >>

ShellTail == << "\n", "\n", "\\end{document}" >>

clean_latex_output(latex_code) ==
    LET unfenced == IF startswith(latex_code, Fence \o << "latex" >>)
                    THEN DropFirst(latex_code, 2)
                    ELSE IF startswith(latex_code, Fence)
                    THEN DropFirst(latex_code, 1)
                    ELSE latex_code
        closed   == IF endswith(unfenced, Fence) THEN DropLast(unfenced, 1) ELSE unfenced
        stripped == strip(closed)
    IN  IF ~startswith(stripped, << Documentclass >>)
        THEN ShellHead \o stripped \o ShellTail
        ELSE stripped

RECURSIVE TextsOf(_)
TextsOf(n) ==
    IF n = 0 THEN { << >> }
    ELSE { Append(t, c) : t \in TextsOf(n - 1), c \in Tokens }

\* the texts the generator may return
Texts == UNION { TextsOf(n) : n \in 0..MaxText }

\* generate_latex cleans the text the remote call returned
Clean(text) ==
    /\ latex' = [called |-> TRUE, text |-> text, out |-> clean_latex_output(text)]
    /\ UNCHANGED <<pc, entry, api_key, apps, storage_uri, log, count, last, tier, procs,
                   admitted, page>>

NextClean == \E text \in Texts : Clean(text)

SpecClean == Init /\ [][NextClean]_vars

----------------------------------------------------------------------------
\* Properties of the conversion endpoint (specification Spec)

Position(seq, x) ==
    IF \E i \in 1..Len(seq) : seq[i] = x
    THEN CHOOSE i \in 1..Len(seq) : seq[i] = x /\ \A j \in 1..(i - 1) : seq[j] # x
    ELSE 0

IsConvert == last.endpoint = "convert_pdf"

\* C1: a quota check that ends in a denial leaves every counter of the identity
\* unchanged (a denied request consumes no quota): no step that is answered with a
\* denial raises a counter.
C1_DeniedLeavesCounters ==
    [][last'.breached # 0 =>
          \A u \in Users, t \in Tiers, i \in Rules : count'[u][t][i] <= count[u][t][i]]_vars

\* the order in which the code evaluates the checks of POST /convert
CodeOrder ==
    << "quota", "content_length", "file_part", "filename", "extension", "size",
       "validate_page_count", "pdf_to_images", "generate_latex" >>

\* the first check of CodeOrder the last request fails, from the request itself
\* ("none": it fails none)
FirstFailing ==
    LET r == last.req IN
    CASE last.breached # 0 -> "quota"
      [] r.has_part /\ r.file_size + MultipartOverhead > MAX_CONTENT_LENGTH -> "content_length"
      [] ~r.has_part -> "file_part"
      [] Len(r.filename) = 0 -> "filename"
      [] r.filename \notin { << "a", ".", "p", "d", "f" >>, PdfName } -> "extension"
      [] r.file_size > MAX_FILE_SIZE -> "size"
      [] r.pages < 1 \/ r.pages > MAX_PAGES_PER_CONVERSION -> "validate_page_count"
      [] r.downstream = "raster_fail" -> "pdf_to_images"
      [] r.downstream \in {"api_fail", "api_empty"} -> "generate_latex"
      [] OTHER -> "none"

C4_ExpensiveWorkGated ==
    (Position(last.steps, "pdf_to_images") > 0 \/ Position(last.steps, "generate_latex") > 0)
        => /\ last.breached = 0
           /\ last.req.pages >= 1
           /\ last.req.pages <= MAX_PAGES_PER_CONVERSION
           /\ Position(last.steps, "quota") = 1
           /\ Position(last.steps, "validate_page_count") > 1
           /\ Position(last.steps, "validate_page_count")
                < Position(last.steps, "pdf_to_images")
           /\ (Position(last.steps, "generate_latex") > 0
                 => Position(last.steps, "pdf_to_images")
                      < Position(last.steps, "generate_latex"))

\* a 20-page upload that was counted, validated, rasterized and converted
C4_Witness ==
    /\ IsConvert
    /\ last.req.pages = MAX_PAGES_PER_CONVERSION
    /\ last.checked
    /\ last.resp.status = 200
    /\ Position(last.steps, "generate_latex") = Len(CodeOrder)

\* the request is bad input: no file, no filename, wrong type, too large, empty, too long
ValidationFailure(r) ==
    \/ ~r.has_part
    \/ Len(r.filename) = 0
    \/ r.filename \notin { << "a", ".", "p", "d", "f" >>, PdfName }
    \/ r.file_size > MAX_FILE_SIZE
    \/ r.pages = 0
    \/ r.pages > MAX_PAGES_PER_CONVERSION

\* C5: every validation failure is answered 400, 500 is used only for downstream
\* failures and 429 only for quota denial.
C5_ValidationIs400 ==
    IsConvert =>
        /\ (last.breached = 0 /\ ValidationFailure(last.req) => last.resp.status = 400)
        /\ (last.resp.status = 500 => ~ValidationFailure(last.req))
        /\ (last.resp.status = 429 => last.breached # 0)

\* C7: every quota denial is answered 429 with a retry_after that is not null.
C7_RetryAfterPresent ==
    last.breached # 0 => last.resp.status = 429 /\ last.resp.retry_after # None

\* C8: a file of exactly MAX_FILE_SIZE bytes passes the size check and goes on to the
\* later checks; a file of MAX_FILE_SIZE + 1 bytes is rejected with a message that
\* reports the limit as "10.0MB".
C8_SizeBoundary ==
    (IsConvert /\ last.breached = 0 /\ last.req.filename = PdfName) =>
        /\ (last.req.file_size = MAX_FILE_SIZE
              => Position(last.steps, "validate_page_count") > 0)
        /\ (last.req.file_size = MAX_FILE_SIZE + 1
              => /\ last.resp.status = 400
                 /\ Contains(last.resp.error, << "Maximum", "size", "is", "10.0MB" >>))

----------------------------------------------------------------------------
\* Properties of the quota tiers (specification SpecTiers)

\* the first rule of tier t whose counter has reached its amount (0: none has)
FirstReached(c, t) ==
    IF \E i \in Rules : c[i] >= RouteLimits(t)[i].amount
    THEN CHOOSE i \in Rules :
           /\ c[i] >= RouteLimits(t)[i].amount
           /\ \A j \in 1..(i - 1) : c[j] < RouteLimits(t)[j].amount
    ELSE 0

DailyLimitOf5 == << "daily", "limit", "of", "5" >>

\* the upload is a valid PDF that every later step accepts
GoodUpload(r) ==
    /\ r.has_part
    /\ r.filename = PdfName
    /\ r.file_size + MultipartOverhead <= MAX_CONTENT_LENGTH
    /\ r.pages >= 1
    /\ r.pages <= MAX_PAGES_PER_CONVERSION
    /\ r.downstream = "ok"

----------------------------------------------------------------------------
\* Properties of the page-count validators (specification SpecPages)

\* C6: page-count validation rejects 0 pages, admits every count from 1 to 20 and
\* rejects every count above 20 with a message naming the count and 20.
C6_PageCountValidation ==
    (page.fn # None /\ page.n # Unreadable) =>
        /\ (page.n = 0 => ~page.valid)
        /\ (page.n >= 1 /\ page.n <= 20 => page.valid)
        /\ (page.n > 20 => /\ ~page.valid
                           /\ Contains(page.msg, << "has", ToString(page.n), "pages," >>)
                           /\ Contains(page.msg, << "allowed", "is", "20", "pages" >>))

----------------------------------------------------------------------------
\* Properties of start-up (specification SpecStart)

DegradedWarning ==
    [level |-> "warning", text |-> "Redis connection failed, using in-memory rate limiting"]

DegradedWarnings == Cardinality({ k \in 1..Len(log) : log[k] = DegradedWarning })

\* no ping of this start-up was answered
RedisUnreachable == \A k \in 1..Len(log) : log[k].level # "info"

\* C9: with Redis unreachable at process start, start-up completes with the in-memory
\* storage selected and the degraded-mode warning is recorded exactly once.
C9_OneDegradedWarning ==
    /\ (pc = "crashed" => ~api_key)
    /\ (pc = "serving" /\ RedisUnreachable
          => storage_uri = "memory" /\ DegradedWarnings = 1)

----------------------------------------------------------------------------
\* Properties of concurrent requests (specification SpecConc)

----------------------------------------------------------------------------
\* Properties of the clean-up of the generated markup (specification SpecClean)

\* the text contains a document preamble
HasPreamble(text) == \E i \in 1..Len(text) : text[i] = Documentclass

\* the markup of a text: what is left of it without fences, the fence's language
\* word and blanks
RECURSIVE Markup(_)
Markup(text) ==
    IF text = << >> THEN << >>
    ELSE IF Head(text) \in {FenceMark, "latex", " "} THEN Markup(Tail(text))
    ELSE << Head(text) >> \o Markup(Tail(text))

\* what the shell encloses in a wrapped result
Enclosed(out) == SubSeq(out, Len(ShellHead) + 1, Len(out) - Len(ShellTail))

\* C11: a text without a document preamble is returned wrapped in the document shell
\* (\documentclass ... \begin{document} ... \end{document}) with its markup inside,
\* and a text that contains a document preamble is returned with nothing added to
\* it: the result is a piece of the text and still holds all its markup.
C11_WrapOrPassThrough ==
    latex.called =>
        IF HasPreamble(latex.text)
        THEN /\ Contains(latex.text, latex.out)
             /\ Markup(latex.out) = Markup(latex.text)
        ELSE /\ startswith(latex.out, ShellHead)
             /\ endswith(latex.out, ShellTail)
             /\ Len(latex.out) >= Len(ShellHead) + Len(ShellTail)
             /\ Markup(Enclosed(latex.out)) = Markup(latex.text)

============================================================================
